---- MODULE Spec2Model ----
(***************************************************************************)
(* Model of the upload/attachment lifecycle of the education site          *)
(* (src/app.py): the Student, Material and Gallery tables, the upload      *)
(* folder, the admin gate of every mutating route, and the material        *)
(* listings.                                                               *)
(*                                                                         *)
(* Strings are sequences of one-character strings, so that the string      *)
(* conversions the code performs (strip, lower, rsplit, secure_filename,   *)
(* ilike) are computed rather than assumed.                                *)
(***************************************************************************)
EXTENDS Integers, Sequences, FiniteSets, TLC

(***************************************************************************)
(* Characters and strings                                                  *)
(***************************************************************************)
Upper == <<"A","B","C","D","E","F","G","H","I","J","K","L","M",
           "N","O","P","Q","R","S","T","U","V","W","X","Y","Z">>
Lower == <<"a","b","c","d","e","f","g","h","i","j","k","l","m",
           "n","o","p","q","r","s","t","u","v","w","x","y","z">>
Digits == <<"0","1","2","3","4","5","6","7","8","9">>

UpperSet == { Upper[i] : i \in 1..26 }
LowerSet == { Lower[i] : i \in 1..26 }
DigitSet == { Digits[i] : i \in 1..10 }

IsUpper(c) == c \in UpperSet
IsLower(c) == c \in LowerSet
IsDigit(c) == c \in DigitSet
IsSpace(c) == c = " "

\* ASCII code points of the model's alphabet (the byte order SQLite's default
\* BINARY collation sorts by)
CodePoint ==
    [c \in UpperSet \cup LowerSet \cup DigitSet \cup {" ", "%", "-", ".", "/", "_"} |->
        IF c \in UpperSet THEN 64 + (CHOOSE i \in 1..26 : Upper[i] = c)
        ELSE IF c \in LowerSet THEN 96 + (CHOOSE i \in 1..26 : Lower[i] = c)
        ELSE IF c \in DigitSet THEN 47 + (CHOOSE i \in 1..10 : Digits[i] = c)
        ELSE IF c = " " THEN 32
        ELSE IF c = "%" THEN 37
        ELSE IF c = "-" THEN 45
        ELSE IF c = "." THEN 46
        ELSE IF c = "/" THEN 47
        ELSE 95]

Ord(c) == CodePoint[c]

\* str.lower() on one character
LowerOf == [c \in UpperSet |-> Lower[CHOOSE i \in 1..26 : Upper[i] = c]]

LowerChar(c) == IF IsUpper(c) THEN LowerOf[c] ELSE c

\* str.lower()
ToLower(s) == [i \in 1..Len(s) |-> LowerChar(s[i])]

\* str.strip(): leading and trailing whitespace removed
RECURSIVE LStrip(_)
LStrip(s) == IF s # <<>> /\ IsSpace(Head(s)) THEN LStrip(Tail(s)) ELSE s

RECURSIVE RStrip(_)
RStrip(s) ==
    IF s # <<>> /\ IsSpace(s[Len(s)]) THEN RStrip(SubSeq(s, 1, Len(s) - 1)) ELSE s

Strip(s) == RStrip(LStrip(s))

\* position of the last "." of s, 0 when there is none
LastDot(s) ==
    IF \E i \in 1..Len(s) : s[i] = "."
    THEN CHOOSE i \in 1..Len(s) : s[i] = "." /\ \A j \in (i+1)..Len(s) : s[j] # "."
    ELSE 0

\* filename.rsplit('.', 1)[1]
Extension(s) == SubSeq(s, LastDot(s) + 1, Len(s))

IMAGE_EXTENSIONS ==
    { <<"p","n","g">>, <<"j","p","g">>, <<"j","p","e","g">>, <<"g","i","f">> }
RESUME_EXTENSIONS ==
    { <<"p","d","f">>, <<"d","o","c">>, <<"d","o","c","x">> }

allowed_file(filename, allowed_extensions) ==
    LastDot(filename) > 0 /\ ToLower(Extension(filename)) \in allowed_extensions

(***************************************************************************)
(* werkzeug.utils.secure_filename, on ASCII input                          *)
(***************************************************************************)
\* filename.replace(os.sep, " ")
ReplaceSep(s) == [i \in 1..Len(s) |-> IF s[i] = "/" THEN " " ELSE s[i]]

\* "_".join(filename.split()): whitespace runs become one "_", leading and
\* trailing whitespace disappears
RECURSIVE JoinWords(_)
JoinWords(s) ==
    IF s = <<>> THEN <<>>
    ELSE IF IsSpace(Head(s))
         THEN IF LStrip(s) = <<>> THEN <<>> ELSE <<"_">> \o JoinWords(LStrip(s))
         ELSE <<Head(s)>> \o JoinWords(Tail(s))

SplitJoin(s) == JoinWords(Strip(s))

\* the characters _filename_ascii_strip_re keeps: [A-Za-z0-9_.-]
IsSafeChar(c) ==
    IsUpper(c) \/ IsLower(c) \/ IsDigit(c) \/ c = "_" \/ c = "." \/ c = "-"

KeepSafe(s) == SelectSeq(s, IsSafeChar)

\* str.strip("._")
IsDotOrUnderscore(c) == c = "." \/ c = "_"

RECURSIVE LStripDU(_)
LStripDU(s) ==
    IF s # <<>> /\ IsDotOrUnderscore(Head(s)) THEN LStripDU(Tail(s)) ELSE s

RECURSIVE RStripDU(_)
RStripDU(s) ==
    IF s # <<>> /\ IsDotOrUnderscore(s[Len(s)])
    THEN RStripDU(SubSeq(s, 1, Len(s) - 1)) ELSE s

secure_filename(filename) ==
    RStripDU(LStripDU(KeepSafe(SplitJoin(ReplaceSep(filename)))))

PROFILE_PREFIX == <<"p","r","o","f","i","l","e","_">>
RESUME_PREFIX == <<"r","e","s","u","m","e","_">>
GALLERY_PREFIX == <<"g","a","l","l","e","r","y","_">>

(***************************************************************************)
(* Title comparison and SQL LIKE                                           *)
(***************************************************************************)
\* s <= t in byte-wise lexicographic order
RECURSIVE StrLeq(_, _)
StrLeq(s, t) ==
    IF s = <<>> THEN TRUE
    ELSE IF t = <<>> THEN FALSE
    ELSE IF Ord(Head(s)) < Ord(Head(t)) THEN TRUE
    ELSE IF Ord(Head(s)) > Ord(Head(t)) THEN FALSE
    ELSE StrLeq(Tail(s), Tail(t))

\* SQL LIKE on already lower-cased operands: % matches any run, _ any one
\* character
RECURSIVE LikeMatch(_, _)
LikeMatch(p, s) ==
    IF p = <<>> THEN s = <<>>
    ELSE IF Head(p) = "%"
         THEN LikeMatch(Tail(p), s) \/ (s # <<>> /\ LikeMatch(p, Tail(s)))
         ELSE IF s = <<>> THEN FALSE
         ELSE (Head(p) = "_" \/ Head(p) = Head(s)) /\ LikeMatch(Tail(p), Tail(s))

\* Material.title.ilike(f'%{search_query}%')
TitleILike(title, search_query) ==
    LikeMatch(<<"%">> \o ToLower(search_query) \o <<"%">>, ToLower(title))

(***************************************************************************)
(* Bounds and request inputs                                               *)
(***************************************************************************)
MaxStudents == 1
MaxMaterials == 2
MaxGallery == 1
MaxRows == 2

\* None, and an absent form field or file part
NULL == <<"NULL">>

\* Python truthiness of an optional string (None and '' are falsy); a
\* FileStorage is truthy exactly when its filename is non-empty
Truthy(v) == v # NULL /\ v # <<>>

\* The resolved identity of a request: no session, an Account with
\* is_admin = False, an Account with is_admin = True
Callers == {"anonymous", "user", "admin"}
is_authenticated(caller) == caller # "anonymous"
is_admin(caller) == caller = "admin"

Methods == {"GET", "POST"}

F_IMAGE == <<"a", ".", "P", "N", "G">>
F_DOC == <<"r", ".", "p", "d", "f">>
F_DOTS == <<".">>

\* form values and file parts the requests are drawn from
NamesAtAdd == { <<" ", "b", " ">>, <<" ">> }
NamesAtEdit == { NULL, <<"c">> }
DescriptionsAtEdit == { NULL, <<"e">> }
SkillsAtEdit == { NULL, <<"k">> }
FileParts == { NULL, F_IMAGE, F_DOC }
SortOrders == { "newest", "oldest", "az", "za" }
Searches == { <<>>, <<" ", "b">>, <<"_">> }

\* secure_filename over the owners and file names of the requests, computed
\* once; PrefixedKey looks its result up here when it can
PrefixedKeyTable ==
    [prefix \in {PROFILE_PREFIX, RESUME_PREFIX, GALLERY_PREFIX},
     owner \in { Strip(n) : n \in NamesAtAdd } \cup (NamesAtEdit \ {NULL})
                  \cup {<<>>, <<"g">>},
     filename \in FileParts \ {NULL} |->
        secure_filename(prefix \o owner \o <<"_">> \o filename)]

\* secure_filename(f"profile_{name}_{filename}") and its siblings
PrefixedKey(prefix, owner, filename) ==
    IF <<prefix, owner, filename>> \in DOMAIN PrefixedKeyTable
    THEN PrefixedKeyTable[prefix, owner, filename]
    ELSE secure_filename(prefix \o owner \o <<"_">> \o filename)

\* FileStorage.save(path): the file is written ("saved"), or the save raises
\* before the file is opened ("failed"), or it raises during the copy and the
\* part already written stays in the folder ("partial")
SaveOutcomes == { "saved", "failed", "partial" }

\* the outcomes that leave nothing half-written
SavedOrRefused == { "saved", "failed" }

(***************************************************************************)
(* State                                                                   *)
(***************************************************************************)
VARIABLES
    students,    \* rows of Student
    materials,   \* rows of Material
    gallery,     \* rows of Gallery
    files,       \* names of the files in UPLOAD_FOLDER
    resp,        \* the last request and its response
    inflight     \* the update requests in progress, each with its own session

vars == <<students, materials, gallery, files, resp, inflight>>

\* SQLite INTEGER PRIMARY KEY: one more than the largest id in the table
Max(S) == CHOOSE m \in S : \A x \in S : x <= m
NextId(table) == IF table = {} THEN 1 ELSE Max({ r.id : r \in table }) + 1

\* the rows of the three tables together
RowCount == Cardinality(students) + Cardinality(materials) + Cardinality(gallery)

Row(table, id) == CHOOSE r \in table : r.id = id
HasRow(table, id) == \E r \in table : r.id = id

\* the upload folder after FileStorage.save(key) ended with outcome o; a key
\* of '' names the folder itself, which open() refuses
SaveRaisesNever(key, o) == FALSE

SaveRaises(key, o) == key = <<>> \/ o # "saved"
AfterSave(fs, key, o) ==
    IF key # <<>> /\ o \in {"saved", "partial"} THEN fs \cup {key} ELSE fs

\* os.remove(path) raises when the file is not there
RemoveRaises(fs, key) == key \notin fs

Response(route, caller, status, flash) ==
    [route |-> route, caller |-> caller, status |-> status, flash |-> flash,
     id |-> 0, query |-> <<>>, items |-> <<>>]

\* the update requests that may be in progress at the same time
Requests == { "r1", "r2" }

\* a request that has not arrived yet
IdleRequest ==
    [pc |-> "idle", status |-> "none", id |-> 0, student |-> NULL, loaded |-> NULL,
     profile_pic |-> NULL, resume_file |-> NULL, overlapped |-> FALSE]

Init ==
    /\ students = {}
    /\ materials = {}
    /\ gallery = {}
    /\ files = {}
    /\ resp = Response("start", "anonymous", "none", "")
    /\ inflight = [r \in Requests |-> IdleRequest]

(***************************************************************************)
(* Access control: @login_required, then current_user.is_admin             *)
(***************************************************************************)
GateAnyUser(caller) ==
    IF ~is_authenticated(caller) THEN "login" ELSE "ok"

Gate(caller) ==
    IF ~is_authenticated(caller) THEN "login"
    ELSE IF ~is_admin(caller) THEN "denied"
    ELSE "ok"

\* the response of a request the gate stopped; nothing else changes
Refuse(route, caller, home) ==
    /\ Gate(caller) # "ok"
    /\ resp' = IF Gate(caller) = "login"
               THEN Response(route, caller, "redirect:login",
                             "Please log in to access this page.")
               ELSE Response(route, caller, "redirect:" \o home,
                             "Access denied. Admin privileges required.")
    /\ UNCHANGED <<students, materials, gallery, files, inflight>>

(***************************************************************************)
(* Student routes                                                          *)
(***************************************************************************)
StudentRow(id, name, description, skills, profile_picture, resume) ==
    [id |-> id, name |-> name, description |-> description, skills |-> skills,
     profile_picture |-> profile_picture, resume |-> resume]

\* POST /student/add and GET /student/add
add_student(caller, method, name_in, description_in, skills_in, profile_pic, resume_file, o1, o2) ==
    /\ Gate(caller) = "ok"
    /\ LET name == Strip(name_in)
           description == Strip(description_in)
           skills == Strip(skills_in)
           hasPic == Truthy(profile_pic)
           hasResume == Truthy(resume_file)
           picBad == hasPic /\ ~allowed_file(profile_pic, IMAGE_EXTENSIONS)
           resumeBad == hasResume /\ ~allowed_file(resume_file, RESUME_EXTENSIONS)
           profile_filename == PrefixedKey(PROFILE_PREFIX, name, profile_pic)
           resume_filename == PrefixedKey(RESUME_PREFIX, name, resume_file)
           files1 == IF hasPic THEN AfterSave(files, profile_filename, o1) ELSE files
           files2 == IF hasResume THEN AfterSave(files1, resume_filename, o2) ELSE files1
           picRaises == hasPic /\ SaveRaises(profile_filename, o1)
           resumeRaises == hasResume /\ SaveRaises(resume_filename, o2)
           R(status, flash) == Response("add_student", caller, status, flash)
       IN  IF method = "GET"
           THEN /\ resp' = Response("add_student", caller, "render:add_student", "")
                /\ UNCHANGED <<students, materials, gallery, files, inflight>>
           ELSE IF name = <<>>
           THEN /\ resp' = R("render:add_student", "Please provide the student name")
                /\ UNCHANGED <<students, materials, gallery, files, inflight>>
           ELSE IF picBad
           THEN /\ resp' = R("render:add_student",
                             "Invalid image format. Please use PNG, JPG, JPEG, or GIF.")
                /\ UNCHANGED <<students, materials, gallery, files, inflight>>
           ELSE IF picRaises
           THEN /\ resp' = R("render:add_student", "Error uploading profile picture")
                /\ files' = files1
                /\ UNCHANGED <<students, materials, gallery, inflight>>
           ELSE IF resumeBad
           THEN /\ resp' = R("render:add_student",
                             "Invalid resume format. Please use PDF, DOC, or DOCX.")
                /\ files' = files1
                /\ UNCHANGED <<students, materials, gallery, inflight>>
           ELSE IF resumeRaises
           THEN /\ resp' = R("render:add_student", "Error uploading resume")
                /\ files' = files2
                /\ UNCHANGED <<students, materials, gallery, inflight>>
           ELSE /\ Cardinality(students) < MaxStudents /\ RowCount < MaxRows
                /\ NextId(students) <= MaxStudents
                /\ students' = students \cup
                       { StudentRow(NextId(students), name, description, skills,
                                    IF hasPic THEN profile_filename ELSE NULL,
                                    IF hasResume THEN resume_filename ELSE NULL) }
                /\ files' = files2
                /\ resp' = [R("redirect:students", "Student profile added successfully!")
                                EXCEPT !.id = NextId(students)]
                /\ UNCHANGED <<materials, gallery, inflight>>

\* request.form.get(field, stored)
FormGetClearing(value_in, stored) == IF value_in = NULL THEN <<>> ELSE value_in

FormGet(value_in, stored) == IF value_in = NULL THEN stored ELSE value_in

\* the upload folder after the picture step of an update: os.remove of the
\* old picture, errors ignored, then the save of the new one
edit_picture_files(fs, student, name, profile_pic, o1) ==
    IF ~Truthy(profile_pic) THEN fs
    ELSE AfterSave(IF Truthy(student.profile_picture)
                   THEN fs \ {student.profile_picture} ELSE fs,
                   PrefixedKey(PROFILE_PREFIX, name, profile_pic), o1)

\* the upload folder after the resume step of an update
edit_resume_files(fs, student, name, resume_file, o2) ==
    IF ~Truthy(resume_file) THEN fs
    ELSE AfterSave(IF Truthy(student.resume) THEN fs \ {student.resume} ELSE fs,
                   PrefixedKey(RESUME_PREFIX, name, resume_file), o2)

\* the row an update commits
edit_student_row(student, name_in, description_in, skills_in, profile_pic, resume_file) ==
    LET name == FormGet(name_in, student.name)
    IN  StudentRow(student.id, name,
                   FormGet(description_in, student.description),
                   FormGet(skills_in, student.skills),
                   IF Truthy(profile_pic)
                   THEN PrefixedKey(PROFILE_PREFIX, name, profile_pic)
                   ELSE student.profile_picture,
                   IF Truthy(resume_file)
                   THEN PrefixedKey(RESUME_PREFIX, name, resume_file)
                   ELSE student.resume)

\* GET and POST /student/edit/<id>
edit_student(caller, id, method, name_in, description_in, skills_in, profile_pic, resume_file, o1, o2) ==
    /\ Gate(caller) = "ok"
    /\ IF ~HasRow(students, id)
       THEN /\ resp' = Response("edit_student", caller, "404", "")
            /\ UNCHANGED <<students, materials, gallery, files, inflight>>
       ELSE IF method = "GET"
       THEN /\ resp' = [Response("edit_student", caller, "render:edit_student", "")
                            EXCEPT !.id = id]
            /\ UNCHANGED <<students, materials, gallery, files, inflight>>
       ELSE
        LET student == Row(students, id)
            name == FormGet(name_in, student.name)
            files2 == edit_picture_files(files, student, name, profile_pic, o1)
            picRaises ==
                /\ Truthy(profile_pic)
                /\ SaveRaises(PrefixedKey(PROFILE_PREFIX, name, profile_pic), o1)
            files4 == edit_resume_files(files2, student, name, resume_file, o2)
            resumeRaises ==
                /\ Truthy(resume_file)
                /\ SaveRaises(PrefixedKey(RESUME_PREFIX, name, resume_file), o2)
            R(status, flash) ==
                [Response("edit_student", caller, status, flash) EXCEPT !.id = id]
        IN  IF picRaises
            \* the exception leaves the view; the session is discarded uncommitted
            THEN /\ resp' = R("500", "")
                 /\ files' = files2
                 /\ UNCHANGED <<students, materials, gallery, inflight>>
            ELSE IF resumeRaises
            THEN /\ resp' = R("500", "")
                 /\ files' = files4
                 /\ UNCHANGED <<students, materials, gallery, inflight>>
            ELSE /\ students' = (students \ {student}) \cup
                        { edit_student_row(student, name_in, description_in, skills_in,
                                           profile_pic, resume_file) }
                 /\ files' = files4
                 /\ resp' = R("redirect:students", "Student profile updated successfully!")
                 /\ UNCHANGED <<materials, gallery, inflight>>

\* GET /student/delete/<id>
delete_student(caller, id) ==
    /\ Gate(caller) = "ok"
    /\ IF ~HasRow(students, id)
       THEN /\ resp' = Response("delete_student", caller, "404", "")
            /\ UNCHANGED <<students, materials, gallery, files, inflight>>
       ELSE
        LET student == Row(students, id)
            picRaises == Truthy(student.profile_picture)
                         /\ RemoveRaises(files, student.profile_picture)
            files1 == IF Truthy(student.profile_picture)
                      THEN files \ {student.profile_picture} ELSE files
            resumeRaises == Truthy(student.resume) /\ RemoveRaises(files1, student.resume)
            files2 == IF Truthy(student.resume) THEN files1 \ {student.resume} ELSE files1
            R(flash) == [Response("delete_student", caller, "redirect:students", flash)
                             EXCEPT !.id = id]
        IN  IF picRaises
            THEN /\ resp' = R("Error deleting student profile")
                 /\ UNCHANGED <<students, materials, gallery, files, inflight>>
            ELSE IF resumeRaises
            THEN /\ resp' = R("Error deleting student profile")
                 /\ files' = files1
                 /\ UNCHANGED <<students, materials, gallery, inflight>>
            ELSE /\ students' = students \ {student}
                 /\ files' = files2
                 /\ resp' = R("Student profile deleted successfully!")
                 /\ UNCHANGED <<materials, gallery, inflight>>

(***************************************************************************)
(* Material routes                                                         *)
(***************************************************************************)
MaterialRow(id, title, category, filename) ==
    [id |-> id, title |-> title, category |-> category, filename |-> filename]

\* GET and POST /upload
upload(caller, method, title, category, file, o) ==
    /\ Gate(caller) = "ok"
    /\ IF method = "GET"
       THEN /\ resp' = Response("upload", caller, "render:upload", "")
            /\ UNCHANGED <<students, materials, gallery, files, inflight>>
       ELSE IF ~(Truthy(file) /\ Truthy(title) /\ category # "")
       THEN /\ resp' = Response("upload", caller, "render:upload",
                                "Please fill in all required fields")
            /\ UNCHANGED <<students, materials, gallery, files, inflight>>
       ELSE
        LET filename == secure_filename(file)
        IN  IF SaveRaises(filename, o)
            THEN /\ resp' = Response("upload", caller, "500", "")
                 /\ files' = AfterSave(files, filename, o)
                 /\ UNCHANGED <<students, materials, gallery, inflight>>
            ELSE /\ Cardinality(materials) < MaxMaterials /\ RowCount < MaxRows
                 /\ NextId(materials) <= MaxMaterials
                 /\ materials' = materials \cup
                        { MaterialRow(NextId(materials), title, category, filename) }
                 /\ files' = AfterSave(files, filename, o)
                 /\ resp' = [Response("upload", caller, "redirect:home",
                                      "Material uploaded successfully!")
                                 EXCEPT !.id = NextId(materials)]
                 /\ UNCHANGED <<students, gallery, inflight>>

\* GET /delete/<id>
delete(caller, id) ==
    /\ Gate(caller) = "ok"
    /\ IF ~HasRow(materials, id)
       THEN /\ resp' = Response("delete", caller, "404", "")
            /\ UNCHANGED <<students, materials, gallery, files, inflight>>
       ELSE
        LET material == Row(materials, id)
            R(flash) == [Response("delete", caller, "redirect:home", flash)
                             EXCEPT !.id = id]
        IN  IF RemoveRaises(files, material.filename)
            THEN /\ resp' = R("Error deleting material")
                 /\ UNCHANGED <<students, materials, gallery, files, inflight>>
            ELSE /\ files' = files \ {material.filename}
                 /\ materials' = materials \ {material}
                 /\ resp' = R("Material deleted successfully!")
                 /\ UNCHANGED <<students, gallery, inflight>>

(***************************************************************************)
(* Gallery routes                                                          *)
(***************************************************************************)
GalleryRow(id, title, category, filename) ==
    [id |-> id, title |-> title, category |-> category, filename |-> filename]

get_predefined_categories ==
    {"General", "Education", "Tour", "Quiz", "Information", "Facts"}

\* GET and POST /gallery/upload
upload_gallery(caller, method, title, category, image, o) ==
    /\ Gate(caller) = "ok"
    /\ IF method = "GET"
       THEN /\ resp' = Response("upload_gallery", caller, "render:upload_gallery", "")
            /\ UNCHANGED <<students, materials, gallery, files, inflight>>
       ELSE IF ~(Truthy(image) /\ Truthy(title) /\ category # "")
       THEN /\ resp' = Response("upload_gallery", caller, "render:upload_gallery",
                                "Please fill in all required fields")
            /\ UNCHANGED <<students, materials, gallery, files, inflight>>
       ELSE
        LET filename == PrefixedKey(GALLERY_PREFIX, title, image)
        IN  IF SaveRaises(filename, o)
            THEN /\ resp' = Response("upload_gallery", caller, "redirect:upload_gallery",
                                     "Error uploading image. Please try again.")
                 /\ files' = AfterSave(files, filename, o)
                 /\ UNCHANGED <<students, materials, gallery, inflight>>
            ELSE /\ Cardinality(gallery) < MaxGallery /\ RowCount < MaxRows
                 /\ NextId(gallery) <= MaxGallery
                 /\ gallery' = gallery \cup
                        { GalleryRow(NextId(gallery), title, category, filename) }
                 /\ files' = AfterSave(files, filename, o)
                 /\ resp' = [Response("upload_gallery", caller, "redirect:gallery",
                                      "Image uploaded successfully!")
                                 EXCEPT !.id = NextId(gallery)]
                 /\ UNCHANGED <<students, materials, inflight>>

\* GET /gallery/delete/<id>
delete_gallery(caller, id) ==
    /\ Gate(caller) = "ok"
    /\ IF ~HasRow(gallery, id)
       THEN /\ resp' = Response("delete_gallery", caller, "404", "")
            /\ UNCHANGED <<students, materials, gallery, files, inflight>>
       ELSE
        LET image == Row(gallery, id)
            R(flash) == [Response("delete_gallery", caller, "redirect:gallery", flash)
                             EXCEPT !.id = id]
        IN  IF RemoveRaises(files, image.filename)
            THEN /\ resp' = R("Error deleting image")
                 /\ UNCHANGED <<students, materials, gallery, files, inflight>>
            ELSE /\ files' = files \ {image.filename}
                 /\ gallery' = gallery \ {image}
                 /\ resp' = R("Image deleted successfully!")
                 /\ UNCHANGED <<students, materials, inflight>>

(***************************************************************************)
(* Downloads                                                               *)
(***************************************************************************)
\* GET /download/<id> and /download/<id>/<type>; type "" is a material
download(caller, id, type) ==
    LET found ==
            IF type = "gallery" THEN HasRow(gallery, id)
            ELSE IF type \in {"profile", "resume"} THEN HasRow(students, id)
            ELSE HasRow(materials, id)
        filename ==
            IF type = "gallery" THEN Row(gallery, id).filename
            ELSE IF type = "profile" THEN Row(students, id).profile_picture
            ELSE IF type = "resume" THEN Row(students, id).resume
            ELSE Row(materials, id).filename
        R(status, flash) ==
            [Response("download", caller, status, flash)
                 EXCEPT !.id = id, !.query = <<type>>]
    IN  /\ resp' = IF type \notin {"gallery", "profile", "resume"}
                      /\ ~is_authenticated(caller)
                   THEN R("redirect:login", "Please log in to download materials.")
                   ELSE IF ~found THEN R("404", "")
                   ELSE IF ~Truthy(filename) THEN R("404", "")
                   ELSE IF filename \notin files THEN R("404", "")
                   \* filename.rsplit('.', 1)[1] of a key without a dot raises
                   ELSE IF type \in {"profile", "gallery"} /\ LastDot(filename) = 0
                   THEN R("404", "")
                   ELSE R("200", "")
        /\ UNCHANGED <<students, materials, gallery, files, inflight>>

(***************************************************************************)
(* Material listings                                                       *)
(***************************************************************************)
per_page == 10

\* the rows a query keeps: filter_by(category=...) and title.ilike(...)
Filtered(category, search_query) ==
    { m \in materials :
        /\ category = "all" \/ m.category = category
        /\ search_query = <<>> \/ TitleILike(m.title, search_query) }

\* ORDER BY: does row a come no later than row b
Before(order, a, b) ==
    CASE order = "title_asc"  -> StrLeq(a.title, b.title)
      [] order = "title_desc" -> StrLeq(b.title, a.title)
      [] order = "id_asc"     -> a.id <= b.id
      [] order = "id_desc"    -> a.id >= b.id

\* every sequence the database may return for ORDER BY over rows: rows with
\* equal sort keys come in an order SQL leaves open
Ordered(rows, order) ==
    { s \in [1..Cardinality(rows) -> rows] :
        /\ \A i, j \in DOMAIN s : i # j => s[i] # s[j]
        /\ \A i, j \in DOMAIN s : i < j => Before(order, s[i], s[j]) }

\* query.paginate(page=page, per_page=per_page, error_out=False).items
Paginate(s, page) ==
    LET p == IF page < 1 THEN 1 ELSE page
        first == (p - 1) * per_page + 1
        last == IF p * per_page < Len(s) THEN p * per_page ELSE Len(s)
    IN  SubSeq(s, first, last)

dashboard_order(sort_order) ==
    IF sort_order = "az" THEN "title_asc"
    ELSE IF sort_order = "za" THEN "title_desc"
    ELSE "id_desc"

search_materials_order(sort_order) ==
    IF sort_order = "az" THEN "title_asc"
    ELSE IF sort_order = "za" THEN "title_desc"
    ELSE IF sort_order = "newest" THEN "id_desc"
    ELSE "id_asc"

Listing(route, sort_order, category, items) ==
    [Response(route, "anonymous", "200", "")
         EXCEPT !.query = <<sort_order, category>>, !.items = items]

\* GET /dashboard/<page>: the notes and the exercises, one page of each
dashboard(page, search_in, sort_order) ==
    LET search_query == Strip(search_in)
    IN  \E notes \in Ordered(Filtered("notes", search_query), dashboard_order(sort_order)),
           exercises \in Ordered(Filtered("exercise", search_query),
                                 dashboard_order(sort_order)) :
            /\ resp' = Listing("dashboard", sort_order, "notes",
                               <<Paginate(notes, page), Paginate(exercises, page)>>)
            /\ UNCHANGED <<students, materials, gallery, files, inflight>>

\* GET /api/search-materials: every match, unpaginated
search_materials(search_in, category, sort_order) ==
    LET search_query == Strip(search_in)
    IN  \E found \in Ordered(Filtered(category, search_query),
                             search_materials_order(sort_order)) :
            /\ resp' = Listing("search_materials", sort_order, category, <<found>>)
            /\ UNCHANGED <<students, materials, gallery, files, inflight>>

(***************************************************************************)
(* An update of a student as the steps of one request, so that two         *)
(* requests can interleave.  Each request has its own SQLAlchemy session:  *)
(* the Student object it loaded, and the values it loaded it with.         *)
(***************************************************************************)
World == [students |-> students, files |-> files, inflight |-> inflight]

Busy(w, r) == { q \in Requests \ {r} : w.inflight[q].pc \notin {"idle", "done"} }

\* where a request goes after the picture branch
AfterPicture(resume_file) == IF Truthy(resume_file) THEN "res_remove" ELSE "commit"

\* where a request goes after the three form fields
AfterFields(profile_pic, resume_file) ==
    IF Truthy(profile_pic) THEN "pic_remove" ELSE AfterPicture(resume_file)

\* Student.query.get_or_404(id), then the three fields of the form are set
\* on the loaded object
edit_student_begin(w, r, id, name_in, description_in, skills_in, profile_pic, resume_file) ==
    IF ~HasRow(w.students, id)
    THEN [w EXCEPT !.inflight[r] = [IdleRequest EXCEPT !.pc = "done", !.status = "404",
                                                       !.id = id]]
    ELSE
     LET row == Row(w.students, id)
         student == [row EXCEPT !.name = FormGet(name_in, row.name),
                                !.description = FormGet(description_in, row.description),
                                !.skills = FormGet(skills_in, row.skills)]
     IN  [w EXCEPT !.inflight =
            [q \in Requests |->
                IF q = r
                THEN [pc |-> AfterFields(profile_pic, resume_file), status |-> "running",
                      id |-> id, student |-> student, loaded |-> row,
                      profile_pic |-> profile_pic, resume_file |-> resume_file,
                      overlapped |-> Busy(w, r) # {}]
                ELSE IF q \in Busy(w, r) THEN [w.inflight[q] EXCEPT !.overlapped = TRUE]
                ELSE w.inflight[q]]]

\* db.session.commit() of an update: the unit of work writes the columns
\* whose value differs from the loaded one
session_commit_all(cur, loaded, student) == student

session_commit(cur, loaded, student) ==
    [col \in DOMAIN cur |-> IF student[col] # loaded[col] THEN student[col] ELSE cur[col]]

\* the next step of a request that is under way; o is the outcome of the
\* save when the step is one
edit_student_step(w, r, o) ==
    LET req == w.inflight[r]
        student == req.student
        raised == [req EXCEPT !.pc = "done", !.status = "500"]
    IN  CASE req.pc = "pic_remove" ->
                [w EXCEPT !.files = IF Truthy(student.profile_picture)
                                    THEN w.files \ {student.profile_picture}
                                    ELSE w.files,
                          !.inflight[r].pc = "pic_save"]
          [] req.pc = "pic_save" ->
                LET profile_filename ==
                        PrefixedKey(PROFILE_PREFIX, student.name, req.profile_pic)
                IN  IF SaveRaises(profile_filename, o)
                    THEN [w EXCEPT !.files = AfterSave(w.files, profile_filename, o),
                                   !.inflight[r] = raised]
                    ELSE [w EXCEPT !.files = AfterSave(w.files, profile_filename, o),
                                   !.inflight[r].student.profile_picture =
                                        profile_filename,
                                   !.inflight[r].pc = AfterPicture(req.resume_file)]
          [] req.pc = "res_remove" ->
                [w EXCEPT !.files = IF Truthy(student.resume)
                                    THEN w.files \ {student.resume}
                                    ELSE w.files,
                          !.inflight[r].pc = "res_save"]
          [] req.pc = "res_save" ->
                LET resume_filename ==
                        PrefixedKey(RESUME_PREFIX, student.name, req.resume_file)
                IN  IF SaveRaises(resume_filename, o)
                    THEN [w EXCEPT !.files = AfterSave(w.files, resume_filename, o),
                                   !.inflight[r] = raised]
                    ELSE [w EXCEPT !.files = AfterSave(w.files, resume_filename, o),
                                   !.inflight[r].student.resume = resume_filename,
                                   !.inflight[r].pc = "commit"]
          [] req.pc = "commit" ->
                \* the row is gone: the UPDATE matches nothing and commit raises
                IF ~HasRow(w.students, req.id)
                THEN [w EXCEPT !.inflight[r] = raised]
                ELSE LET cur == Row(w.students, req.id)
                     IN  [w EXCEPT !.students =
                                      (w.students \ {cur}) \cup
                                          { session_commit(cur, req.loaded, student) },
                                   !.inflight[r].pc = "done",
                                   !.inflight[r].status = "ok"]
          [] OTHER -> w

\* POST /student/edit/<id> arrives
BeginUpdate(r, id, name_in, profile_pic, resume_file) ==
    /\ Gate("admin") = "ok"
    /\ inflight[r].pc = "idle"
    /\ inflight' = edit_student_begin(World, r, id, name_in, NULL, NULL,
                                      profile_pic, resume_file).inflight
    /\ resp' = IF HasRow(students, id) THEN resp
               ELSE Response("edit_student", "admin", "404", "")
    /\ UNCHANGED <<students, materials, gallery, files>>

\* a request under way takes its next step
StepUpdate(r, o) ==
    /\ inflight[r].pc \notin {"idle", "done"}
    /\ LET after == edit_student_step(World, r, o)
           ended == after.inflight[r]
       IN  /\ students' = after.students
           /\ files' = after.files
           /\ inflight' = after.inflight
           /\ resp' = IF ended.pc # "done" THEN resp
                      ELSE [Response("edit_student", "admin",
                                     IF ended.status = "ok" THEN "redirect:students"
                                     ELSE "500",
                                     IF ended.status = "ok"
                                     THEN "Student profile updated successfully!"
                                     ELSE "")
                                EXCEPT !.id = ended.id]
    /\ UNCHANGED <<materials, gallery>>

(***************************************************************************)
(* Requests                                                                *)
(***************************************************************************)
StudentIds == 1..(MaxStudents + 1)
MaterialIds == 1..(MaxMaterials + 1)
GalleryIds == 1..(MaxGallery + 1)

\* the callers the gate lets through
Admitted == { caller \in Callers : Gate(caller) = "ok" }

\* a GET request carries no form: one value stands for all
Form(method, values) ==
    IF method = "POST" THEN values ELSE { CHOOSE v \in values : TRUE }

\* the outcomes of saving a file part: an absent part is never saved
Outcomes(file, outcomes) == IF Truthy(file) THEN outcomes ELSE {"saved"}

\* a mutating route called by someone the gate stops
Denied ==
    \E caller \in Callers :
        \/ Refuse("add_student", caller, "students")
        \/ Refuse("edit_student", caller, "students")
        \/ Refuse("delete_student", caller, "students")
        \/ Refuse("upload", caller, "home")
        \/ Refuse("delete", caller, "home")
        \/ Refuse("upload_gallery", caller, "gallery")
        \/ Refuse("delete_gallery", caller, "gallery")

AddStudentFrom(names, descriptions, skillsets, pics, resumes, outcomes) ==
    \E caller \in Admitted, method \in Methods :
      \E name_in \in Form(method, names),
         description_in \in Form(method, descriptions),
         skills_in \in Form(method, skillsets),
         profile_pic \in Form(method, pics), resume_file \in Form(method, resumes) :
        \E o1 \in Outcomes(profile_pic, outcomes),
           o2 \in Outcomes(resume_file, outcomes) :
            add_student(caller, method, name_in, description_in, skills_in,
                        profile_pic, resume_file, o1, o2)

EditStudentFrom(names, descriptions, skillsets, pics, resumes, outcomes) ==
    \E caller \in Admitted, id \in StudentIds, method \in Methods :
      \E name_in \in Form(method, names),
         description_in \in Form(method, descriptions),
         skills_in \in Form(method, skillsets),
         profile_pic \in Form(method, pics), resume_file \in Form(method, resumes) :
        \E o1 \in Outcomes(profile_pic, outcomes),
           o2 \in Outcomes(resume_file, outcomes) :
            edit_student(caller, id, method, name_in, description_in, skills_in,
                         profile_pic, resume_file, o1, o2)

DeleteStudent ==
    \E caller \in Admitted, id \in StudentIds : delete_student(caller, id)

UploadWith(titles, categories, uploads, outcomes) ==
    \E caller \in Admitted, method \in Methods :
      \E title \in Form(method, titles), category \in Form(method, categories),
         file \in Form(method, uploads) :
        \E o \in Outcomes(file, outcomes) : upload(caller, method, title, category, file, o)

UploadFrom(titles, categories, uploads) ==
    UploadWith(titles, categories, uploads, SavedOrRefused)

Delete ==
    \E caller \in Admitted, id \in MaterialIds : delete(caller, id)

UploadGalleryWith(categories, outcomes) ==
    \E caller \in Admitted, method \in Methods :
      \E title \in Form(method, { NULL, <<"g">> }),
         category \in Form(method, categories),
         image \in Form(method, { NULL, F_IMAGE }) :
        \E o \in Outcomes(image, outcomes) :
            upload_gallery(caller, method, title, category, image, o)

UploadGallery == UploadGalleryWith({ "", "General" }, SavedOrRefused)

DeleteGallery ==
    \E caller \in Admitted, id \in GalleryIds : delete_gallery(caller, id)

(***************************************************************************)
(* The whole site: every mutating route, each table fed one kind of row    *)
(***************************************************************************)
AddStudent ==
    AddStudentFrom(NamesAtAdd, { <<"d">> }, { <<"s">> },
                   { NULL, F_IMAGE }, { NULL, F_DOC }, SavedOrRefused)

EditStudent ==
    EditStudentFrom({ NULL }, { NULL }, { NULL }, { NULL, F_IMAGE }, { NULL, F_DOC },
                    SavedOrRefused)

Upload ==
    UploadFrom({ NULL, <<"a">> }, { "", "notes" }, { NULL, F_DOC, F_DOTS })

Next ==
    \/ Denied
    \/ AddStudent
    \/ EditStudent
    \/ DeleteStudent
    \/ Upload
    \/ Delete
    \/ UploadGallery
    \/ DeleteGallery

Spec == Init /\ [][Next]_vars

(***************************************************************************)
(* The attachments of a student profile: file parts of either kind in      *)
(* either slot, saves that fail, a rename                                  *)
(***************************************************************************)
AddStudentFiles ==
    AddStudentFrom(NamesAtAdd, { <<"d">> }, { <<"s">> }, FileParts, FileParts,
                   SavedOrRefused)

EditStudentFiles ==
    EditStudentFrom({ NULL, <<>> }, { NULL }, { NULL }, FileParts, FileParts,
                    SavedOrRefused)

NextStudents ==
    \/ AddStudentFiles
    \/ EditStudentFiles
    \/ DeleteStudent

SpecStudents == Init /\ [][NextStudents]_vars

(***************************************************************************)
(* The fields of a student profile: created with both attachments, every   *)
(* field present or absent in an update                                    *)
(***************************************************************************)
AddStudentFields ==
    AddStudentFrom(NamesAtAdd, { <<"d">> }, { <<"s">> },
                   { F_IMAGE }, { F_DOC }, { "saved" })

EditStudentFields ==
    EditStudentFrom(NamesAtEdit, DescriptionsAtEdit, SkillsAtEdit,
                    { NULL, F_IMAGE }, { NULL, F_DOC }, { "saved" })

NextProfile ==
    \/ AddStudentFields
    \/ EditStudentFields
    \/ DeleteStudent

SpecProfile == Init /\ [][NextProfile]_vars

(***************************************************************************)
(* The materials and their listings                                        *)
(***************************************************************************)
UploadMaterial ==
    UploadFrom({ NULL, <<"a">>, <<"B">> }, { "", "notes", "exercise" }, { NULL, F_DOC })

Dashboard ==
    \E page \in { 1, 2 }, search_in \in Searches, sort_order \in SortOrders :
        dashboard(page, search_in, sort_order)

SearchMaterials ==
    \E search_in \in Searches, category \in { "all", "notes" },
       sort_order \in SortOrders :
        search_materials(search_in, category, sort_order)

DownloadMaterial ==
    \E caller \in Callers, id \in MaterialIds : download(caller, id, "")

NextListing ==
    \/ Denied
    \/ UploadMaterial
    \/ Delete
    \/ DownloadMaterial
    \/ Dashboard
    \/ SearchMaterials

SpecListing == Init /\ [][NextListing]_vars

(***************************************************************************)
(* The categories of materials and gallery images: values of the           *)
(* enumerations, a value outside them, a value in another case             *)
(***************************************************************************)
MaterialCategoriesIn == { "", "notes", "exam", "essay" }
GalleryCategoriesIn == { "", "Tour", "essay", "general" }

UploadCategorised ==
    UploadFrom({ NULL, <<"a">> }, MaterialCategoriesIn, { NULL, F_DOC })

UploadGalleryCategorised == UploadGalleryWith(GalleryCategoriesIn, SavedOrRefused)

NextCategories ==
    \/ UploadCategorised
    \/ Delete
    \/ UploadGalleryCategorised
    \/ DeleteGallery

SpecCategories == Init /\ [][NextCategories]_vars

(***************************************************************************)
(* Two updates of a student in progress at the same time                   *)
(***************************************************************************)
Arrive ==
    \E r \in Requests, id \in StudentIds :
      \E name_in \in { NULL, <<"c">> }, profile_pic \in FileParts,
         resume_file \in { NULL, F_DOC } :
        BeginUpdate(r, id, name_in, profile_pic, resume_file)

Proceed ==
    \E r \in Requests :
      \E o \in IF inflight[r].pc \in {"pic_save", "res_save"}
                THEN SaveOutcomes ELSE {"saved"} :
        StepUpdate(r, o)

NextSessions ==
    \/ AddStudentFields
    \/ Arrive
    \/ Proceed

SpecSessions == Init /\ [][NextSessions]_vars

(***************************************************************************)
(* The saves of file parts: every route that saves one, with every outcome *)
(* of the save                                                             *)
(***************************************************************************)
AddStudentSaving ==
    AddStudentFrom(NamesAtAdd, { <<"d">> }, { <<"s">> },
                   { NULL, F_IMAGE }, { NULL, F_DOC }, SaveOutcomes)

EditStudentSaving ==
    EditStudentFrom({ NULL }, { NULL }, { NULL }, { NULL, F_IMAGE }, { NULL, F_DOC },
                    SaveOutcomes)

UploadSaving ==
    UploadWith({ NULL, <<"a">> }, { "notes" }, { NULL, F_DOC, F_DOTS }, SaveOutcomes)

UploadGallerySaving == UploadGalleryWith({ "General" }, SaveOutcomes)

NextSaves ==
    \/ AddStudentSaving
    \/ EditStudentSaving
    \/ UploadSaving
    \/ UploadGallerySaving

SpecSaves == Init /\ [][NextSaves]_vars

(***************************************************************************)
(* Vocabulary of the properties                                            *)
(***************************************************************************)
MutatingRoutes ==
    {"add_student", "edit_student", "delete_student", "upload", "delete",
     "upload_gallery", "delete_gallery"}

SuccessFlashes ==
    {"Student profile added successfully!", "Student profile updated successfully!",
     "Student profile deleted successfully!", "Material uploaded successfully!",
     "Material deleted successfully!", "Image uploaded successfully!",
     "Image deleted successfully!"}

ValidationFlashes ==
    {"Please provide the student name",
     "Invalid image format. Please use PNG, JPG, JPEG, or GIF.",
     "Invalid resume format. Please use PDF, DOC, or DOCX."}

\* the request behind the response r ran to its successful end
Succeeded(r) == r.route \in MutatingRoutes /\ r.flash \in SuccessFlashes

\* every attachment reference held by a row, as <<table, id, field, key>>
References ==
    { <<"student", st.id, "profile_picture", st.profile_picture>> : st \in students }
    \cup { <<"student", st.id, "resume", st.resume>> : st \in students }
    \cup { <<"material", m.id, "filename", m.filename>> : m \in materials }
    \cup { <<"gallery", g.id, "filename", g.filename>> : g \in gallery }

HeldReferences == { r \in References : r[4] # NULL }

NoDanglingReference == \A r \in HeldReferences : r[4] \in files

(***************************************************************************)
(* C1: after any sequence of successfully completed create, update and     *)
(* delete operations, every attachment reference of a row is null or       *)
(* names a file of the upload folder. Stated as the step that preserves    *)
(* it: an operation that ends successfully in a state without dangling     *)
(* references leaves no dangling reference.                                *)
(***************************************************************************)
C1_NoDanglingAfterSuccess ==
    [][(NoDanglingReference /\ Succeeded(resp')) => NoDanglingReference']_vars

(***************************************************************************)
(* C2: a mutating route called by an anonymous caller or by an account     *)
(* that is not an admin answers with a redirect and a flash message and    *)
(* changes no row and no file, whatever happened before the call.          *)
(***************************************************************************)
C2_DeniedChangesNothing ==
    [][(resp'.route \in MutatingRoutes /\ ~is_admin(resp'.caller))
          => /\ UNCHANGED <<students, materials, gallery, files>>
             /\ resp'.status \in {"redirect:login", "redirect:students",
                                  "redirect:home", "redirect:gallery"}
             /\ resp'.flash # ""
             /\ resp'.flash \notin SuccessFlashes]_vars

\* a non-admin account has just been refused the deletion of a material
\* that is still there, after an admin had been let through
C2_Witness ==
    /\ resp.route = "delete"
    /\ resp.caller = "user"
    /\ resp.status = "redirect:home"
    /\ resp.flash = "Access denied. Admin privileges required."
    /\ materials # {}
    /\ files # {}

(***************************************************************************)
(* C3: when an admin deletes an existing student, material or gallery      *)
(* image and the removal of an attachment file fails, the failure is       *)
(* swallowed: the other attachment is still removed and the row is         *)
(* deleted.                                                                *)
(***************************************************************************)
C3_DeleteProceedsPastMissingFile ==
    [][/\ \A st \in students :
            (resp'.route = "delete_student" /\ is_admin(resp'.caller)
             /\ resp'.id = st.id)
                => /\ st \notin students'
                   /\ st.profile_picture \notin files'
                   /\ st.resume \notin files'
       /\ \A m \in materials :
            (resp'.route = "delete" /\ is_admin(resp'.caller) /\ resp'.id = m.id)
                => m \notin materials' /\ m.filename \notin files'
       /\ \A g \in gallery :
            (resp'.route = "delete_gallery" /\ is_admin(resp'.caller)
             /\ resp'.id = g.id)
                => g \notin gallery' /\ g.filename \notin files']_vars

(***************************************************************************)
(* C4: a student create or update request carrying a file whose extension  *)
(* is outside the allow-list of its attachment class is rejected with a    *)
(* validation error and leaves the upload folder as it was. Stated for     *)
(* the requests none of whose saves fails.                                 *)
(***************************************************************************)
BadExtension(profile_pic, resume_file) ==
    \/ Truthy(profile_pic) /\ ~allowed_file(profile_pic, IMAGE_EXTENSIONS)
    \/ Truthy(resume_file) /\ ~allowed_file(resume_file, RESUME_EXTENSIONS)

C4_BadExtensionRejected ==
    [][resp'.route \in {"add_student", "edit_student"} =>
        \A profile_pic \in FileParts, resume_file \in FileParts :
            BadExtension(profile_pic, resume_file) =>
                /\ \A name_in \in NamesAtAdd :
                      add_student("admin", "POST", name_in, <<"d">>, <<"s">>,
                                  profile_pic, resume_file, "saved", "saved")
                        => /\ files' = files
                           /\ students' = students
                           /\ resp'.flash \in ValidationFlashes
                /\ \A st \in students :
                      edit_student("admin", st.id, "POST", NULL, NULL, NULL,
                                   profile_pic, resume_file, "saved", "saved")
                        => /\ files' = files
                           /\ students' = students
                           /\ resp'.flash \in ValidationFlashes]_vars

(***************************************************************************)
(* C5: a material an admin creates in category notes appears in the notes  *)
(* listing; a deletion attempted by a caller who is not an admin leaves it *)
(* listed; a deletion by an admin succeeds, after which the material is    *)
(* listed nowhere and its file can no longer be retrieved; whatever other  *)
(* materials there are at each of these steps.                             *)
(***************************************************************************)
\* the rows some page-1 listing of the category shows, whatever the sort
OnFirstPage(category) ==
    { m \in materials :
        \A sort_order \in SortOrders :
            \A listing \in Ordered(Filtered(category, <<>>), dashboard_order(sort_order)) :
                \E i \in 1..Len(Paginate(listing, 1)) : Paginate(listing, 1)[i] = m }

C5_MaterialLifecycle ==
    [][/\ (resp'.route = "upload" /\ Succeeded(resp'))
            => \E m \in materials' \ materials :
                  /\ m.id = resp'.id
                  /\ m.category = "notes" => m \in OnFirstPage("notes")'
       /\ (resp'.route = "delete" /\ ~is_admin(resp'.caller))
            => /\ materials' = materials
               /\ OnFirstPage("notes")' = OnFirstPage("notes")
       /\ \A m \in materials :
            (resp'.route = "delete" /\ is_admin(resp'.caller) /\ resp'.id = m.id)
                => /\ Succeeded(resp')
                   /\ m \notin Filtered("all", <<>>)'
                   /\ m.filename \notin files']_vars

(***************************************************************************)
(* C6: no two references, of different rows or of different fields, hold   *)
(* the same storage key.                                                   *)
(***************************************************************************)
C6_NoSharedKey ==
    \A r1 \in HeldReferences, r2 \in HeldReferences : r1 # r2 => r1[4] # r2[4]

(***************************************************************************)
(* C7: every stored student has a name that is non-empty after trimming.   *)
(***************************************************************************)
C7_NameNeverBlank == \A st \in students : Strip(st.name) # <<>>

(***************************************************************************)
(* C8: when the save of a file part fails in add_student, edit_student,    *)
(* upload or upload_gallery, the request creates no row and updates none,  *)
(* so no row comes to reference the key that was not written.              *)
(***************************************************************************)
\* the part is there and its save fails
FailedSave(file, o) == Truthy(file) /\ o # "saved"

C8_FailedSaveWritesNoRow ==
    [][\/ UNCHANGED <<students, materials, gallery>>
       \/ /\ resp'.route = "add_student" =>
                \A name_in \in NamesAtAdd, profile_pic \in { NULL, F_IMAGE },
                   resume_file \in { NULL, F_DOC },
                   o1 \in SaveOutcomes, o2 \in SaveOutcomes :
                    ~ /\ FailedSave(profile_pic, o1) \/ FailedSave(resume_file, o2)
                      /\ add_student("admin", "POST", name_in, <<"d">>, <<"s">>,
                                     profile_pic, resume_file, o1, o2)
          /\ resp'.route = "edit_student" =>
                \A st \in students, profile_pic \in { NULL, F_IMAGE },
                   resume_file \in { NULL, F_DOC },
                   o1 \in SaveOutcomes, o2 \in SaveOutcomes :
                    ~ /\ FailedSave(profile_pic, o1) \/ FailedSave(resume_file, o2)
                      /\ edit_student("admin", st.id, "POST", NULL, NULL, NULL,
                                      profile_pic, resume_file, o1, o2)
          /\ resp'.route = "upload" =>
                \A title \in { <<"a">> }, category \in { "notes" },
                   file \in { F_DOC, F_DOTS }, o \in SaveOutcomes \ {"saved"} :
                    ~upload("admin", "POST", title, category, file, o)
          /\ resp'.route = "upload_gallery" =>
                \A title \in { <<"g">> }, category \in { "General" },
                   image \in { F_IMAGE }, o \in SaveOutcomes \ {"saved"} :
                    ~upload_gallery("admin", "POST", title, category, image, o)]_vars

\* an edit has just ended in an error because the save of the new picture
\* failed: the stored row still names the old picture, whose file the edit
\* had already removed
C8_Witness ==
    /\ resp.route = "edit_student"
    /\ resp.status = "500"
    /\ \E st \in students :
          /\ st.id = resp.id
          /\ st.profile_picture # NULL
          /\ st.profile_picture \notin files

(***************************************************************************)
(* C9: an update changes only what the request supplies: a name,           *)
(* description or skills field that is absent keeps its stored value, and  *)
(* an attachment without a file part keeps its reference and its file,     *)
(* also when the same request renames the student.                         *)
(***************************************************************************)
C9_UpdateKeepsWhatIsOmitted ==
    \A st \in students, name_in \in NamesAtEdit,
       description_in \in DescriptionsAtEdit, skills_in \in SkillsAtEdit,
       profile_pic \in { NULL, F_IMAGE }, resume_file \in { NULL, F_DOC } :
        LET name == FormGet(name_in, st.name)
            new == edit_student_row(st, name_in, description_in, skills_in,
                                    profile_pic, resume_file)
            after == edit_resume_files(
                         edit_picture_files(files, st, name, profile_pic, "saved"),
                         st, name, resume_file, "saved")
        IN  /\ name_in = NULL => new.name = st.name
            /\ description_in = NULL => new.description = st.description
            /\ skills_in = NULL => new.skills = st.skills
            /\ profile_pic = NULL =>
                  /\ new.profile_picture = st.profile_picture
                  /\ (st.profile_picture \in after) = (st.profile_picture \in files)
            /\ resume_file = NULL =>
                  /\ new.resume = st.resume
                  /\ (st.resume \in after) = (st.resume \in files)

\* an update has renamed student b to c and replaced the resume without a
\* picture part, a description or skills: the picture still goes by the key
\* made from the old name, its file is in place, and the description and
\* the skills are those of the creation
C9_Witness ==
    /\ resp.route = "edit_student"
    /\ resp.flash = "Student profile updated successfully!"
    /\ \E st \in students :
          /\ st.id = resp.id
          /\ st.name = <<"c">>
          /\ st.profile_picture = PrefixedKey(PROFILE_PREFIX, <<"b">>, F_IMAGE)
          /\ st.profile_picture \in files
          /\ st.resume = PrefixedKey(RESUME_PREFIX, <<"c">>, F_DOC)
          /\ st.description = <<"d">>
          /\ st.skills = <<"s">>

(***************************************************************************)
(* C10: a material listing comes in the order its sort parameter names:    *)
(* newest by descending id, oldest by ascending id, az by non-decreasing   *)
(* title, za by non-increasing title; and the dashboard and the search     *)
(* endpoint put the same rows in the same order for each sort parameter.   *)
(***************************************************************************)
InSortOrder(sort_order, listing) ==
    \A i, j \in 1..Len(listing) :
        i < j =>
            CASE sort_order = "newest" -> listing[i].id > listing[j].id
              [] sort_order = "oldest" -> listing[i].id < listing[j].id
              [] sort_order = "az" -> StrLeq(listing[i].title, listing[j].title)
              [] sort_order = "za" -> StrLeq(listing[j].title, listing[i].title)

C10_ListingsHonourSortOrder ==
    /\ resp.route \in {"dashboard", "search_materials"} =>
          \A k \in 1..Len(resp.items) : InSortOrder(resp.query[1], resp.items[k])
    /\ resp.route = "dashboard" =>
          \A search_in \in Searches :
              Ordered(Filtered("notes", Strip(search_in)), dashboard_order(resp.query[1]))
                  = Ordered(Filtered("notes", Strip(search_in)),
                            search_materials_order(resp.query[1]))

(***************************************************************************)
(* C11: every stored material has a category among notes, exercise and     *)
(* exam, and every stored gallery image one of the six predefined          *)
(* categories; a create request with any other category stores no row.     *)
(***************************************************************************)
MATERIAL_CATEGORIES == { "notes", "exercise", "exam" }

CategoriesWithinEnumeration ==
    /\ \A m \in materials : m.category \in MATERIAL_CATEGORIES
    /\ \A g \in gallery : g.category \in get_predefined_categories

C11_CategoriesWithinEnumeration ==
    /\ []CategoriesWithinEnumeration
    /\ [][/\ resp'.route = "upload" =>
              \A category \in MaterialCategoriesIn \ MATERIAL_CATEGORIES :
                  upload("admin", "POST", <<"a">>, category, F_DOC, "saved")
                      => UNCHANGED materials
          /\ resp'.route = "upload_gallery" =>
              \A category \in GalleryCategoriesIn \ get_predefined_categories :
                  upload_gallery("admin", "POST", <<"g">>, category, F_IMAGE, "saved")
                      => UNCHANGED gallery]_vars

(***************************************************************************)
(* C12 vocabulary                                                          *)
(***************************************************************************)
\* request r has completed successfully
Completed(r) == inflight[r].pc = "done" /\ inflight[r].status = "ok"

\* both requests updated the same student, each with a new picture, and
\* both have completed successfully
BothReplacedPicture ==
    /\ \A r \in Requests : Completed(r) /\ Truthy(inflight[r].profile_pic)
    /\ \A r, q \in Requests : inflight[r].id = inflight[q].id

\* the requests ran one after the other
OneAfterTheOther == \A r \in Requests : ~inflight[r].overlapped

\* the student the requests updated
Updated == Row(students, inflight["r1"].id)

\* the files of the upload folder that no student names
Unreferenced ==
    files \ UNION { { st.profile_picture, st.resume } : st \in students }

\* the steps of an update that replaces the picture alone
PictureUpdate == <<"begin", "pic_remove", "pic_save", "commit">>

\* the orders in which the steps of two such updates can be taken: at each
\* place, the request that takes its next step
Interleavings ==
    { s \in [1..(2 * Len(PictureUpdate)) -> Requests] :
        Cardinality({ i \in DOMAIN s : s[i] = "r1" }) = Len(PictureUpdate) }

\* the orders that run one request to its end before the other begins
Serial ==
    { s \in Interleavings :
        \A i \in 1..(Len(PictureUpdate) - 1) : s[i] = s[i + 1] }

\* the forms of two updates that each bring a new picture
PictureForms ==
    [Requests -> [name_in : { NULL, <<"c">> }, profile_pic : { F_IMAGE, F_DOC }]]

\* the world after the requests took their steps in the order s from place i
\* on, every save succeeding
RECURSIVE Run(_, _, _, _, _)
Run(w, id, forms, s, i) ==
    IF i > Len(s) THEN w
    ELSE LET r == s[i]
         IN  Run(IF w.inflight[r].pc = "idle"
                 THEN edit_student_begin(w, r, id, forms[r].name_in, NULL, NULL,
                                         forms[r].profile_pic, NULL)
                 ELSE edit_student_step(w, r, "saved"),
                 id, forms, s, i + 1)

\* both updates have completed successfully and the picture the row names
\* is not in the upload folder
EndsDangling(w, id) ==
    /\ \A r \in Requests : w.inflight[r].pc = "done" /\ w.inflight[r].status = "ok"
    /\ Row(w.students, id).profile_picture \notin w.files

(***************************************************************************)
(* C12: two concurrent updates of the same student that each replace the   *)
(* same attachment can interleave so that, after both complete             *)
(* successfully, the stored reference names a file that no longer exists;  *)
(* no such outcome is reachable when the two run one after the other.      *)
(* Stated of every student whose picture is in place while no update is    *)
(* under way: some order of the steps of two picture updates ends with the *)
(* reference dangling, and no serial order does.                           *)
(***************************************************************************)
C12_InterleavingLeavesDanglingReference ==
    \A st \in students :
        ( /\ \A r \in Requests : inflight[r].pc = "idle"
          /\ Truthy(st.profile_picture)
          /\ st.profile_picture \in files )
        => /\ \E forms \in PictureForms, s \in Interleavings :
                  EndsDangling(Run(World, st.id, forms, s, 1), st.id)
           /\ \A forms \in PictureForms, s \in Serial :
                  ~EndsDangling(Run(World, st.id, forms, s, 1), st.id)

(***************************************************************************)
(* C12 as amended: after two updates of the same student that each         *)
(* replaced the same attachment have both completed successfully, the      *)
(* stored reference names a file that is in the upload folder, however     *)
(* their steps interleaved; and when they ran one after the other, the     *)
(* upload folder holds no file that no row names.                          *)
(***************************************************************************)
BothReplacedResume ==
    /\ \A r \in Requests : Completed(r) /\ Truthy(inflight[r].resume_file)
    /\ \A r, q \in Requests : inflight[r].id = inflight[q].id

C12_InterleavingLeavesUnreferencedFile ==
    /\ BothReplacedPicture => Updated.profile_picture \in files
    /\ BothReplacedResume => Updated.resume \in files
    /\ ( (BothReplacedPicture \/ BothReplacedResume) /\ OneAfterTheOther )
          => Unreferenced = {}

\* two updates of student 1 that overlapped have both replaced the picture
\* and completed: the row names the picture of the one that committed last,
\* and the picture the other one saved is still in the folder, named by no
\* row
C12_Witness ==
    /\ BothReplacedPicture
    /\ \A r \in Requests : inflight[r].overlapped
    /\ Updated.profile_picture \in files
    /\ \E key \in Unreferenced :
          \E r \in Requests : inflight[r].student.profile_picture = key

====
